---- MODULE Spec2Model ----
(***************************************************************************)
(* R.O.S.S. (streamlit_app.py): field extraction, quantity resolution,     *)
(* label plan expansion, batch orchestration and the barcode temp file.    *)
(*                                                                         *)
(* A Python str is a sequence of one-character strings.  A character that  *)
(* has no ASCII spelling is written by its code point ("U+20AC").          *)
(***************************************************************************)
EXTENDS Integers, Sequences, FiniteSets, TLC

VARIABLES
    pieces,      \* SpecParse: the pieces the job-name input is assembled from
    job_in,      \* SpecParse: argument of parse_job_name_qty
    parse_out,   \* SpecParse: <<its return value>>, <<>> before the call
    text_lines,  \* SpecExtract: the lines the page text is assembled from
    text,        \* SpecExtract: argument of extract_fields
    fields,      \* SpecExtract: <<its outcome>>, <<>> before the call
    rec,         \* SpecLabels: arguments of make_labels_from_job_and_load
    labels,      \* SpecLabels: <<its return value>>, <<>> before the call
    manual_mode, \* SpecBatch: the "Manual Entry" toggle
    entries,     \* SpecBatch: rows collected by the manual form
    uploaded,    \* SpecBatch: uploaded documents, each a sequence of page texts
    all_labels,  \* SpecBatch: all_labels of the run
    total_labels,\* SpecBatch: total_labels of the run
    batch_pc,    \* SpecBatch: where the script run ended
    job,         \* SpecBarcode: per session, the label being rendered
    pc,          \* SpecBarcode: per session, position in make_single_label_pdf
    barcode_path,\* SpecBarcode: per session, local barcode_path
    tmpdir       \* SpecBarcode: files of tempfile.gettempdir(): path -> writer

vars == <<pieces, job_in, parse_out, text_lines, text, fields, rec, labels,
          manual_mode, entries, uploaded, all_labels, total_labels, batch_pc,
          job, pc, barcode_path, tmpdir>>

parseVars == <<pieces, job_in, parse_out>>
extractVars == <<text_lines, text, fields>>
labelVars == <<rec, labels>>
batchVars == <<manual_mode, entries, uploaded, all_labels, total_labels, batch_pc>>
barcodeVars == <<job, pc, barcode_path, tmpdir>>

\* a result variable holds <<>> until the call has run, then <<result>>;
\* an optional value is <<>> for None and <<v>> for v

(***************************************************************************)
(* Characters and the str methods the code uses                            *)
(***************************************************************************)
Digits == {"0", "1", "2", "3", "4", "5", "6", "7", "8", "9"}

Letters == {"a", "b", "c", "d", "e", "f", "g", "h", "i", "j", "k", "l", "m",
            "n", "o", "p", "q", "r", "s", "t", "u", "v", "w", "x", "y", "z",
            "A", "B", "C", "D", "E", "F", "G", "H", "I", "J", "K", "L", "M",
            "N", "O", "P", "Q", "R", "S", "T", "U", "V", "W", "X", "Y", "Z"}

\* \s of re, and the characters str.strip() and str.split() treat as blank
IsSpace(c) == c \in {" ", "\t", "\n", "\r", "\f"}

\* \d of re
IsDigit(c) == c \in Digits

\* \w of re
IsWord(c) == c \in Letters \cup Digits \cup {"_"}

\* . of re (no DOTALL): anything but a newline
IsDot(c) == c # "\n"

DigitVal(c) == CASE c = "0" -> 0 [] c = "1" -> 1 [] c = "2" -> 2 [] c = "3" -> 3
                 [] c = "4" -> 4 [] c = "5" -> 5 [] c = "6" -> 6 [] c = "7" -> 7
                 [] c = "8" -> 8 [] c = "9" -> 9

\* s[i:j] of Python with 1-based inclusive positions; empty when i > j
Slice(s, i, j) == IF i > j THEN <<>> ELSE SubSeq(s, i, j)

RECURSIVE LStrip(_)
LStrip(s) == IF s # <<>> /\ IsSpace(Head(s)) THEN LStrip(Tail(s)) ELSE s

RECURSIVE RStrip(_)
RStrip(s) ==
    IF s # <<>> /\ IsSpace(s[Len(s)]) THEN RStrip(SubSeq(s, 1, Len(s) - 1)) ELSE s

\* str.strip()
Strip(s) == RStrip(LStrip(s))

\* str.split(sep) for a one-character sep: always at least one piece
RECURSIVE SplitOn(_, _)
SplitOn(s, sep) ==
    IF \E i \in 1..Len(s) : s[i] = sep
    THEN LET i == CHOOSE k \in 1..Len(s) :
                      s[k] = sep /\ \A m \in 1..(k - 1) : s[m] # sep
         IN <<Slice(s, 1, i - 1)>> \o SplitOn(Slice(s, i + 1, Len(s)), sep)
    ELSE <<s>>

\* int(s) for a string of decimal digits
RECURSIVE IntOf(_)
IntOf(s) ==
    IF s = <<>> THEN 0
    ELSE 10 * IntOf(SubSeq(s, 1, Len(s) - 1)) + DigitVal(s[Len(s)])

\* re.fullmatch(r"\d+", s)
FullMatchDigits(s) == s # <<>> /\ \A i \in 1..Len(s) : IsDigit(s[i])

RECURSIVE StripNonEmpty(_)
StripNonEmpty(ps) ==
    IF ps = <<>> THEN <<>>
    ELSE IF Strip(Head(ps)) # <<>>
         THEN <<Strip(Head(ps))>> \o StripNonEmpty(Tail(ps))
         ELSE StripNonEmpty(Tail(ps))

\* split_csv_like with a seeded fault: the pieces are not trimmed
split_csv_like_untrimmed(value) ==
    IF value = <<>> THEN <<>>
    ELSE SelectSeq(SplitOn(value, ","), LAMBDA p : Strip(p) # <<>>)

split_csv_like(value) ==
    IF value = <<>> THEN <<>>
    ELSE StripNonEmpty(SplitOn(value, ","))

\* ParseNumeric with a seeded fault: the digits are counted, not read
ParseNumericLen(s) == [qty |-> Len(s), items |-> <<>>]

\* the numeric branch of parse_job_name_qty
ParseNumeric(s) == [qty |-> IntOf(s), items |-> <<>>]

\* ParseList with a seeded fault: an empty list yields its length
ParseListNoDefault(parts) == [qty |-> Len(parts), items |-> parts]

\* the list branch and the final default of parse_job_name_qty
ParseList(parts) ==
    IF parts # <<>> THEN [qty |-> Len(parts), items |-> parts]
    ELSE [qty |-> 1, items |-> <<>>]

parse_job_name_qty(job_raw) ==
    IF job_raw = <<>> THEN [qty |-> 1, items |-> <<>>]
    ELSE LET s == Strip(job_raw)
         IN IF FullMatchDigits(s) THEN ParseNumeric(s)
            ELSE ParseList(split_csv_like(s))

(***************************************************************************)
(* SpecParse: parse_job_name_qty applied to job names assembled from       *)
(* comma-separated pieces (blank padding, core, blank padding)             *)
(***************************************************************************)
MaxPieces == 3

Pads == {<<>>, <<" ">>}

Cores == {<<>>, <<"w", "i", "d", "g", "e", "t">>, <<"0", "7">>, <<"a", " ", "1">>}

MaxDigits == 3

DigitStrings == UNION {[1..n -> Digits] : n \in 1..MaxDigits}

\* job names that are one run of digits, with or without blank padding
NumericPieces == {<<[lead |-> l, core |-> d, trail |-> t]>> :
                     l \in Pads, d \in DigitStrings, t \in Pads}

Piece == [lead : Pads, core : Cores, trail : Pads]

PieceText(p) == p.lead \o p.core \o p.trail

RECURSIVE JoinComma(_)
JoinComma(ps) ==
    IF ps = <<>> THEN <<>>
    ELSE IF Len(ps) = 1 THEN Head(ps)
    ELSE Head(ps) \o <<",">> \o JoinComma(Tail(ps))

PieceSeqs == UNION {[1..n -> Piece] : n \in 0..MaxPieces}

JobText(ps) == JoinComma([i \in 1..Len(ps) |-> PieceText(ps[i])])

InitParse ==
    /\ pieces \in PieceSeqs \cup NumericPieces
    /\ job_in = JobText(pieces)
    /\ parse_out = <<>>
    /\ text_lines = <<>> /\ text = <<>> /\ fields = <<>>
    /\ rec = <<>> /\ labels = <<>>
    /\ manual_mode = FALSE /\ entries = <<>> /\ uploaded = <<>>
    /\ all_labels = <<>> /\ total_labels = 0 /\ batch_pc = "idle"
    /\ job = <<>> /\ pc = <<>> /\ barcode_path = <<>> /\ tmpdir = <<>>

ParseJob ==
    /\ parse_out = <<>>
    /\ parse_out' = <<parse_job_name_qty(job_in)>>
    /\ UNCHANGED <<pieces, job_in>>
    /\ UNCHANGED <<extractVars, labelVars, batchVars, barcodeVars>>

NextParse == ParseJob

SpecParse == InitParse /\ [][NextParse]_vars

(***************************************************************************)
(* Claims about parse_job_name_qty (SpecParse)                             *)
(***************************************************************************)
Parsed == parse_out # <<>>

ParseResult == parse_out[1]

HasComma(s) == \E i \in 1..Len(s) : s[i] = ","

\* the non-empty cores of the pieces, in order: the tokens a reader sees
RECURSIVE ExpectedTokens(_)
ExpectedTokens(ps) ==
    IF ps = <<>> THEN <<>>
    ELSE IF Head(ps).core # <<>>
         THEN <<Head(ps).core>> \o ExpectedTokens(Tail(ps))
         ELSE ExpectedTokens(Tail(ps))

RECURSIVE Pow10(_)
Pow10(n) == IF n = 0 THEN 1 ELSE 10 * Pow10(n - 1)

\* the value of a digit string as the sum of its digits by place
RECURSIVE PlaceValue(_)
PlaceValue(s) ==
    IF s = <<>> THEN 0
    ELSE DigitVal(Head(s)) * Pow10(Len(s) - 1) + PlaceValue(Tail(s))

\* one token that is not a number: no comma, no blank, not all digits
SingleNonNumericToken(s) ==
    /\ s # <<>>
    /\ ~HasComma(s)
    /\ \A i \in 1..Len(s) : ~IsSpace(s[i])
    /\ ~FullMatchDigits(s)

\* C4: parse_job_name_qty returns (1, []) for the empty string and for every
\* single non-numeric token without a comma (the items list is empty).
C4_EmptyOrSingleTokenGivesNoItems ==
    (Parsed /\ (job_in = <<>> \/ SingleNonNumericToken(job_in)))
        => ParseResult = [qty |-> 1, items |-> <<>>]

\* C7: a job name made of decimal digits only yields (int(s), []).
C7_DigitsGiveTheirValue ==
    (Parsed /\ FullMatchDigits(job_in))
        => ParseResult = [qty |-> PlaceValue(job_in), items |-> <<>>]

C7_Witness ==
    /\ Parsed
    /\ job_in = <<"0", "4", "2">>
    /\ ParseResult.qty = 42

\* C8 as stated: every job name with a comma yields (k, tokens), k the number
\* of non-empty trimmed tokens, k = 0 included.
C8_Original ==
    (Parsed /\ HasComma(job_in))
        => ParseResult = [qty |-> Len(ExpectedTokens(pieces)),
                          items |-> ExpectedTokens(pieces)]

\* C8 amended: a job name with a comma and k >= 1 non-empty trimmed tokens
\* yields (k, tokens), the tokens in their original order, trimmed, empty
\* pieces dropped; with no non-empty token at all it yields (1, []).
C8_CommaListGivesTokens ==
    (Parsed /\ HasComma(job_in))
        => IF ExpectedTokens(pieces) # <<>>
           THEN ParseResult = [qty |-> Len(ExpectedTokens(pieces)),
                               items |-> ExpectedTokens(pieces)]
           ELSE ParseResult = [qty |-> 1, items |-> <<>>]

C8_Witness ==
    /\ Parsed
    /\ job_in = <<" ", "a", " ", "1", ",", ",", "0", "7", " ">>
    /\ ParseResult = [qty |-> 2, items |-> << <<"a", " ", "1">>, <<"0", "7">> >>]

(***************************************************************************)
(* The regular expressions of extract_fields.  Positions are 1-based.  A   *)
(* search returns <<>> for no match and <<group 1>> for the leftmost match.*)
(***************************************************************************)
UpperSeq == <<"A", "B", "C", "D", "E", "F", "G", "H", "I", "J", "K", "L", "M",
              "N", "O", "P", "Q", "R", "S", "T", "U", "V", "W", "X", "Y", "Z">>

LowerSeq == <<"a", "b", "c", "d", "e", "f", "g", "h", "i", "j", "k", "l", "m",
              "n", "o", "p", "q", "r", "s", "t", "u", "v", "w", "x", "y", "z">>

\* str.lower() of one character, as (?i) compares
Lower(c) ==
    IF \E i \in 1..26 : UpperSeq[i] = c
    THEN LowerSeq[CHOOSE i \in 1..26 : UpperSeq[i] = c]
    ELSE c

\* the literal lit matches at position p
LitAt(t, p, lit) ==
    /\ p + Len(lit) - 1 <= Len(t)
    /\ \A i \in 1..Len(lit) : t[p + i - 1] = lit[i]

\* the literal lit matches at position p under (?i)
LitAtNoCase(t, p, lit) ==
    /\ p + Len(lit) - 1 <= Len(t)
    /\ \A i \in 1..Len(lit) : Lower(t[p + i - 1]) = Lower(lit[i])

\* the character classes the patterns repeat: \s, \S, \d, . and [\w-]
InClass(c, class) ==
    CASE class = "\\s" -> IsSpace(c)
      [] class = "\\S" -> ~IsSpace(c)
      [] class = "\\d" -> IsDigit(c)
      [] class = "." -> IsDot(c)
      [] class = "[\\w-]" -> IsWord(c) \/ c = "-"

\* the last position of the longest run of characters of the class that
\* starts at p (p - 1 when the run is empty): a greedy X*
RunEnd(t, p, class) ==
    CHOOSE q \in (p - 1)..Len(t) :
        /\ \A i \in p..q : InClass(t[i], class)
        /\ q = Len(t) \/ ~InClass(t[q + 1], class)

\* the largest element of a non-empty set of positions
MaxOf(S) == CHOOSE x \in S : \A y \in S : y <= x

MinOf(S) == CHOOSE x \in S : \A y \in S : x <= y

\* \s*(.+) from position q: \s* is greedy and gives blanks back until .+
\* finds a character that is not a newline; .+ then runs to the line's end
AfterDotPlus(t, q) ==
    LET starts == {s \in q..(RunEnd(t, q, "\\s") + 1) :
                       s <= Len(t) /\ IsDot(t[s])}
    IN IF starts = {} THEN <<>>
       ELSE LET s == MaxOf(starts)
            IN <<Slice(t, s, RunEnd(t, s, "."))>>

LitSO == <<"S", "O", "-">>

\* \s*(SO-\d+[\w-]*) from position q
AfterSalesOrder(t, q) ==
    LET starts == {s \in q..(RunEnd(t, q, "\\s") + 1) :
                       /\ LitAt(t, s, LitSO)
                       /\ RunEnd(t, s + 3, "\\d") >= s + 3}
    IN IF starts = {} THEN <<>>
       ELSE LET s == MaxOf(starts)
                d == RunEnd(t, s + 3, "\\d")
            IN <<Slice(t, s, RunEnd(t, d + 1, "[\\w-]"))>>

\* \s*(\d+) from position q
AfterDigits(t, q) ==
    LET starts == {s \in q..(RunEnd(t, q, "\\s") + 1) :
                       s <= Len(t) /\ IsDigit(t[s])}
    IN IF starts = {} THEN <<>>
       ELSE LET s == MaxOf(starts)
            IN <<Slice(t, s, RunEnd(t, s, "\\d"))>>

\* \s*[:\-]?\s*(\d+) from position q.  Whatever the two \s* share between
\* them, the digits begin after the blanks, one optional separator and the
\* blanks that follow it.
AfterPieces(t, q) ==
    LET a == RunEnd(t, q, "\\s") + 1
        b == IF a <= Len(t) /\ t[a] \in {":", "-"} THEN a + 1 ELSE a
        c == RunEnd(t, b, "\\s") + 1
    IN IF c <= Len(t) /\ IsDigit(t[c])
       THEN <<Slice(t, c, RunEnd(t, c, "\\d"))>>
       ELSE <<>>

\* what follows the label's literal in the pattern, matched from position q
After(rest, t, q) ==
    CASE rest = "\\s*(.+)" -> AfterDotPlus(t, q)
      [] rest = "\\s*(SO-\\d+[\\w-]*)" -> AfterSalesOrder(t, q)
      [] rest = "\\s*(\\d+)" -> AfterDigits(t, q)

\* re.search(lit + rest, t): group 1 of the match at the leftmost position
\* where the literal and the rest both match
SearchLabel(t, lit, rest) ==
    LET hits == {p \in 1..Len(t) :
                    LitAt(t, p, lit) /\ After(rest, t, p + Len(lit)) # <<>>}
    IN IF hits = {} THEN <<>> ELSE After(rest, t, MinOf(hits) + Len(lit))

LitCarrier == <<"C", "a", "r", "r", "i", "e", "r", ":">>

LitSalesOrder == <<"S", "a", "l", "e", "s", " ", "O", "r", "d", "e", "r", ":">>

LitProNumber == <<"P", "r", "o", " ", "N", "u", "m", "b", "e", "r", ":">>

LitJobName == <<"J", "o", "b", " ", "N", "a", "m", "e", ":">>

LitLoadNumber == <<"L", "o", "a", "d", " ", "N", "u", "m", "b", "e", "r", ":">>

LitPieces == <<"P", "i", "e", "c", "e", "s">>

\* re.search(r"(?i)Pieces\s*[:\-]?\s*(\d+)", text)
PiecesSearch(t) ==
    LET hits == {p \in 1..Len(t) :
                    LitAtNoCase(t, p, LitPieces) /\ AfterPieces(t, p + 6) # <<>>}
    IN IF hits = {} THEN <<>> ELSE AfterPieces(t, MinOf(hits) + 6)

\* PiecesFallbackApplies with a seeded fault: the fallback runs whatever the job name
PiecesFallbackAlways(job_raw) == TRUE

\* "if not job_raw": the legacy fallback is tried only without a job name
PiecesFallbackApplies(job_raw) == job_raw = <<>>

\* str.split()[0] of a stripped, non-empty string
FirstToken(s) == Slice(s, 1, RunEnd(s, 1, "\\S"))

\* extract_fields: the dict it returns (exc = "none"), or the exception that
\* leaves it
extract_fields(t) ==
    LET carrier_match == SearchLabel(t, LitCarrier, "\\s*(.+)")
        so_match == SearchLabel(t, LitSalesOrder, "\\s*(SO-\\d+[\\w-]*)")
        pro_match == SearchLabel(t, LitProNumber, "\\s*(\\d+)")
        job_match == SearchLabel(t, LitJobName, "\\s*(.+)")
        job_raw == IF job_match # <<>> THEN Strip(job_match[1]) ELSE <<>>
        parsed == parse_job_name_qty(job_raw)
        load_match == SearchLabel(t, LitLoadNumber, "\\s*(.+)")
        load_numbers == IF load_match # <<>> THEN split_csv_like(load_match[1])
                        ELSE <<>>
        pieces_match == IF PiecesFallbackApplies(job_raw) THEN PiecesSearch(t)
                        ELSE <<>>
        qty == IF pieces_match # <<>> THEN IntOf(pieces_match[1]) ELSE parsed.qty
    IN IF carrier_match # <<>> /\ Strip(carrier_match[1]) = <<>>
       THEN [exc |-> "IndexError"]
       ELSE [exc |-> "none",
             scac |-> IF carrier_match # <<>>
                      THEN FirstToken(Strip(carrier_match[1])) ELSE <<>>,
             so |-> IF so_match # <<>> THEN so_match[1] ELSE <<>>,
             pro |-> IF pro_match # <<>> THEN pro_match[1] ELSE <<>>,
             job_raw |-> job_raw,
             job_list |-> parsed.items,
             load_numbers |-> load_numbers,
             qty |-> qty]

(***************************************************************************)
(* SpecExtract: extract_fields applied to page texts assembled from lines  *)
(***************************************************************************)
MaxLines == 3

\* kind: the label the line carries; pv: <<n>> when the line is a Pieces
\* count of n
Lines == {
    [kind |-> "carrier", txt |-> <<"C", "a", "r", "r", "i", "e", "r", ":", " ", "F", "E", "D", "X", " ", "E", "X", "P", "R", "E", "S", "S">>,
     pv |-> <<>>],
    [kind |-> "carrier", txt |-> <<"C", "a", "r", "r", "i", "e", "r", ":", " ">>,
     pv |-> <<>>],
    [kind |-> "so", txt |-> <<"S", "a", "l", "e", "s", " ", "O", "r", "d", "e", "r", ":", " ", "S", "O", "-", "1", "2", "3", "4", "5", "-", "A">>,
     pv |-> <<>>],
    [kind |-> "pro", txt |-> <<"P", "r", "o", " ", "N", "u", "m", "b", "e", "r", ":", " ", "9", "9", "8", "8", "7", "7">>,
     pv |-> <<>>],
    [kind |-> "job", txt |-> <<"J", "o", "b", " ", "N", "a", "m", "e", ":", " ", "3">>,
     pv |-> <<>>],
    [kind |-> "job", txt |-> <<"J", "o", "b", " ", "N", "a", "m", "e", ":", " ", "0">>,
     pv |-> <<>>],
    [kind |-> "job", txt |-> <<"J", "o", "b", " ", "N", "a", "m", "e", ":", " ", "c", "1", "6", ",", " ", "a", "2", "6">>,
     pv |-> <<>>],
    [kind |-> "job", txt |-> <<"J", "o", "b", " ", "N", "a", "m", "e", ":", " ">>,
     pv |-> <<>>],
    [kind |-> "job", txt |-> <<"J", "o", "b", " ", "N", "a", "m", "e", ":", " ", ",">>,
     pv |-> <<>>],
    [kind |-> "load", txt |-> <<"L", "o", "a", "d", " ", "N", "u", "m", "b", "e", "r", ":", " ", "c", "1", "6", ",", " ", "a", "2", "6">>,
     pv |-> <<>>],
    [kind |-> "pieces", txt |-> <<"P", "i", "e", "c", "e", "s", ":", " ", "5">>,
     pv |-> <<5>>],
    [kind |-> "pieces", txt |-> <<"P", "I", "E", "C", "E", "S", "-", "0">>,
     pv |-> <<0>>],
    [kind |-> "pieces", txt |-> <<"p", "i", "e", "c", "e", "s", " ", "1", "2">>,
     pv |-> <<12>>]}

LineSeqs == UNION {[1..n -> Lines] : n \in 0..MaxLines}

RECURSIVE JoinLines(_)
JoinLines(ls) ==
    IF ls = <<>> THEN <<>>
    ELSE IF Len(ls) = 1 THEN Head(ls).txt
    ELSE Head(ls).txt \o <<"\n">> \o JoinLines(Tail(ls))

InitExtract ==
    /\ text_lines \in LineSeqs
    /\ text = JoinLines(text_lines)
    /\ fields = <<>>
    /\ pieces = <<>> /\ job_in = <<>> /\ parse_out = <<>>
    /\ rec = <<>> /\ labels = <<>>
    /\ manual_mode = FALSE /\ entries = <<>> /\ uploaded = <<>>
    /\ all_labels = <<>> /\ total_labels = 0 /\ batch_pc = "idle"
    /\ job = <<>> /\ pc = <<>> /\ barcode_path = <<>> /\ tmpdir = <<>>

Extract ==
    /\ fields = <<>>
    /\ fields' = <<extract_fields(text)>>
    /\ UNCHANGED <<text_lines, text>>
    /\ UNCHANGED <<parseVars, labelVars, batchVars, barcodeVars>>

NextExtract == Extract

SpecExtract == InitExtract /\ [][NextExtract]_vars

(***************************************************************************)
(* Claims about extract_fields (SpecExtract)                               *)
(***************************************************************************)
Extracted == fields # <<>>

Fields == fields[1]

Returned == Extracted /\ Fields.exc = "none"

HasKind(k) == \E i \in 1..Len(text_lines) : text_lines[i].kind = k

PiecesLinesAt == {i \in 1..Len(text_lines) : text_lines[i].pv # <<>>}

\* the count written on the first Pieces line of the text
FirstPiecesValue == text_lines[MinOf(PiecesLinesAt)].pv[1]

AllZeros(s) == s # <<>> /\ \A i \in 1..Len(s) : s[i] = "0"

\* C5: extract_fields never raises, whatever the text, and every field with
\* no match has its default ("" or []).
C5_ExtractIsTotal ==
    Extracted =>
        /\ Fields.exc = "none"
        /\ ~HasKind("carrier") => Fields.scac = <<>>
        /\ ~HasKind("so") => Fields.so = <<>>
        /\ ~HasKind("pro") => Fields.pro = <<>>
        /\ ~HasKind("job") => Fields.job_raw = <<>>
        /\ ~HasKind("load") => Fields.load_numbers = <<>>

\* C6 as stated: the quantity of every extracted record is >= 1.
C6_Original == Returned => Fields.qty >= 1

\* C6 amended: the quantity of every extracted record is a non-negative
\* integer; it is 0 exactly when the job name is a digit string of value zero,
\* or when there is no job name and the first Pieces count is zero, and it
\* is >= 1 otherwise.
C6_QuantityNonNegative ==
    Returned =>
        /\ Fields.qty \in Nat
        /\ Fields.qty = 0 <=>
              \/ AllZeros(Fields.job_raw)
              \/ /\ Fields.job_raw = <<>>
                 /\ PiecesLinesAt # {}
                 /\ FirstPiecesValue = 0

C6_Witness ==
    /\ Returned
    /\ Fields.job_raw = <<"0">>
    /\ Fields.qty = 0

\* C9: with an empty job name and a Pieces count in the text (any letter
\* case, optional ":" or "-"), the quantity is the first such count, whatever
\* commas the text holds; with a job name, the Pieces text plays no part and
\* the quantity is the one the job name resolves to.
C9_PiecesFallback ==
    Returned =>
        /\ (Fields.job_raw = <<>> /\ PiecesLinesAt # {})
              => Fields.qty = FirstPiecesValue
        /\ Fields.job_raw # <<>>
              => Fields.qty = parse_job_name_qty(Fields.job_raw).qty

C9_Witness ==
    /\ Returned
    /\ Fields.job_raw = <<>>
    /\ HasKind("load")
    /\ Len(Fields.load_numbers) = 2
    /\ PiecesLinesAt # {}
    /\ FirstPiecesValue = 12
    /\ Fields.qty = 12

(***************************************************************************)
(* make_labels_from_job_and_load.  A label's PDF bytes are represented by  *)
(* what make_single_label_pdf prints on the page.                          *)
(***************************************************************************)
\* the page make_single_label_pdf returns
LabelPage(so, scac, pro, load_text, idx, total) ==
    [so |-> so, scac |-> scac, pro |-> pro, load_text |-> load_text,
     idx |-> idx, total |-> total]

\* LabelTotal with a seeded fault: the max(1, ...) is lost
LabelTotalNoClamp(qty) == IF qty = <<>> \/ qty = <<0>> THEN 1 ELSE qty[1]

\* max(1, int(qty or 1)); qty is <<>> for None
LabelTotal(qty) ==
    LET q == IF qty = <<>> \/ qty = <<0>> THEN 1 ELSE qty[1]
    IN IF q > 1 THEN q ELSE 1

\* LoadTextAt with a seeded fault: the 1-based label number is used as the index
LoadTextAtShifted(load_numbers, i) ==
    IF i + 1 < Len(load_numbers) THEN load_numbers[i + 2] ELSE <<>>

\* load_numbers[i] if i < len(load_numbers) else "", i counted from 0
LoadTextAt(load_numbers, i) ==
    IF i < Len(load_numbers) THEN load_numbers[i + 1] ELSE <<>>

make_labels_from_job_and_load(so, scac, pro, qty, load_numbers) ==
    LET total == LabelTotal(qty)
    IN [n \in 1..total |->
           LabelPage(so, scac, pro, LoadTextAt(load_numbers, n - 1), n, total)]

(***************************************************************************)
(* SpecLabels: make_labels_from_job_and_load applied to shipment records   *)
(***************************************************************************)
MaxQty == 3

MaxLoads == 3

TextSO1 == <<"S", "O", "-", "1", "2", "3", "4", "5", "-", "A">>

TextSO2 == <<"S", "O", "-", "7">>

TextFEDX == <<"F", "E", "D", "X">>

TextPro == <<"9", "9", "8", "8", "7", "7">>

TokenC16 == <<"c", "1", "6">>

TokenA26 == <<"a", "2", "6">>

Quantities == {<<>>} \cup {<<n>> : n \in (-1)..MaxQty}

LoadLists == UNION {[1..n -> {TokenC16, TokenA26}] : n \in 0..MaxLoads}

InitLabels ==
    /\ rec \in {<<r>> : r \in [so : {TextSO1}, scac : {TextFEDX, <<>>},
                               pro : {TextPro, <<>>}, qty : Quantities,
                               load_numbers : LoadLists]}
    /\ labels = <<>>
    /\ pieces = <<>> /\ job_in = <<>> /\ parse_out = <<>>
    /\ text_lines = <<>> /\ text = <<>> /\ fields = <<>>
    /\ manual_mode = FALSE /\ entries = <<>> /\ uploaded = <<>>
    /\ all_labels = <<>> /\ total_labels = 0 /\ batch_pc = "idle"
    /\ job = <<>> /\ pc = <<>> /\ barcode_path = <<>> /\ tmpdir = <<>>

MakeLabels ==
    /\ labels = <<>>
    /\ labels' = <<make_labels_from_job_and_load(
                      rec[1].so, rec[1].scac, rec[1].pro, rec[1].qty,
                      rec[1].load_numbers)>>
    /\ UNCHANGED rec
    /\ UNCHANGED <<parseVars, extractVars, batchVars, barcodeVars>>

NextLabels == MakeLabels

SpecLabels == InitLabels /\ [][NextLabels]_vars

(***************************************************************************)
(* Claims about make_labels_from_job_and_load (SpecLabels)                 *)
(***************************************************************************)
Built == labels # <<>>

Labels == labels[1]

Record == rec[1]

\* max(1, quantity), a missing quantity counting as 1
ExpectedCount ==
    IF Record.qty # <<>> /\ Record.qty[1] >= 1 THEN Record.qty[1] ELSE 1

\* C1: the builder returns exactly N = max(1, quantity) labels (missing, zero
\* or negative quantity clamped to 1), in ascending order: the label at
\* 1-based position n carries index n and total N.
C1_CountAndIndices ==
    Built =>
        /\ Len(Labels) = ExpectedCount
        /\ \A n \in 1..Len(Labels) :
              /\ Labels[n].idx = n
              /\ Labels[n].total = Len(Labels)
              /\ 1 <= Labels[n].idx /\ Labels[n].idx <= Labels[n].total

C1_Witness ==
    /\ Built
    /\ Record.qty = <<-1>>
    /\ Len(Labels) = 1
    /\ Labels[1].idx = 1 /\ Labels[1].total = 1

\* C2: the label at 1-based position n shows load_numbers[n] when there is
\* one and the empty string otherwise; tokens beyond the label count are on
\* no label.
C2_PositionalLoadText ==
    Built =>
        \A n \in 1..Len(Labels) :
            Labels[n].load_text =
                IF n <= Len(Record.load_numbers) THEN Record.load_numbers[n]
                ELSE <<>>

C2_Witness ==
    /\ Built
    /\ Record.qty = <<3>>
    /\ Record.load_numbers = <<TokenC16, TokenA26>>
    /\ [n \in 1..3 |-> Labels[n].load_text] = <<TokenC16, TokenA26, <<>> >>

C2_WitnessExcess ==
    /\ Built
    /\ Record.qty = <<1>>
    /\ Record.load_numbers = <<TokenC16, TokenA26>>
    /\ Len(Labels) = 1
    /\ Labels[1].load_text = TokenC16

(***************************************************************************)
(* The two script runs that build a batch: the manual form with its        *)
(* "Generate Labels" button, and the upload of BOL PDFs.                   *)
(***************************************************************************)
\* rows the manual form can show: for i in range(20)
FormRows == 20

MaxRows == 2

MaxRowQty == 2

MaxDocs == 2

MaxPages == 2

TextSO2Padded == <<" ", "S", "O", "-", "7", " ">>

TextLoads == <<"c", "1", "6", ",", " ", "a", "2", "6">>

\* a row whose Sales Order box holds text
FilledRows == [so : {TextSO1, TextSO2Padded}, pro : {TextPro}, scac : {TextFEDX},
               qty : 1..MaxRowQty, loads : {<<>>, TextLoads}]

\* a row whose Sales Order box is empty or blank
BlankRows == [so : {<<>>, <<" ">>}, pro : {TextPro}, scac : {TextFEDX},
              qty : 1..MaxRowQty, loads : {TextLoads}]

\* entries as the form loop leaves it: each row is shown only when the row
\* before it has a sales order, so the rows that have one come first and one
\* blank row follows them, unless all FormRows rows are in use
ManualEntries ==
    LET most == IF MaxRows < FormRows THEN MaxRows ELSE FormRows
    IN UNION {IF n = FormRows THEN [1..n -> FilledRows]
              ELSE {filled \o <<blank>> :
                       filled \in [1..n -> FilledRows], blank \in BlankRows} :
              n \in 0..most}

PageShipment ==
    <<"S", "a", "l", "e", "s", " ", "O", "r", "d", "e", "r", ":", " ",
      "S", "O", "-", "1", "2", "3", "4", "5", "-", "A", "\n", "J", "o",
      "b", " ", "N", "a", "m", "e", ":", " ", "3", "\n", "L", "o", "a",
      "d", " ", "N", "u", "m", "b", "e", "r", ":", " ", "c", "1", "6",
      ",", " ", "a", "2", "6">>

PageNoOrder ==
    <<"C", "a", "r", "r", "i", "e", "r", ":", " ", "F", "E", "D", "X",
      " ", "E", "X", "P", "R", "E", "S", "S", "\n", "J", "o", "b", " ",
      "N", "a", "m", "e", ":", " ", "c", "1", "6", ",", " ", "a", "2",
      "6">>

PageLegacy ==
    <<"C", "a", "r", "r", "i", "e", "r", ":", " ", "F", "E", "D", "X",
      " ", "E", "X", "P", "R", "E", "S", "S", "\n", "S", "a", "l", "e",
      "s", " ", "O", "r", "d", "e", "r", ":", " ", "S", "O", "-", "7",
      "\n", "P", "i", "e", "c", "e", "s", ":", " ", "2">>

PageBlankCarrier ==
    <<"P", "r", "o", " ", "N", "u", "m", "b", "e", "r", ":", " ", "9",
      "9", "8", "8", "7", "7", "\n", "C", "a", "r", "r", "i", "e", "r",
      ":", " ">>

PageTexts == {PageShipment, PageNoOrder, PageLegacy, PageBlankCarrier}

Documents == UNION {[1..n -> PageTexts] : n \in 1..MaxPages}

\* the uploads of up to MaxDocs files, each one of docs
UploadsOf(docs) == UNION {[1..n -> docs] : n \in 1..MaxDocs}

\* the pages of the uploaded documents in the order the two loops visit them
RECURSIVE PagesOf(_)
PagesOf(docs) == IF docs = <<>> THEN <<>> ELSE Head(docs) \o PagesOf(Tail(docs))

\* the "for ... in entries" loop of the manual run: all_labels after it
RECURSIVE ManualLoop(_, _)
ManualLoop(rows, acc) ==
    IF rows = <<>> THEN acc
    ELSE LET r == Head(rows)
         IN IF Strip(r.so) # <<>>
            THEN ManualLoop(Tail(rows),
                            acc \o make_labels_from_job_and_load(
                                      Strip(r.so), Strip(r.scac), Strip(r.pro),
                                      <<r.qty>>, split_csv_like(r.loads)))
            ELSE ManualLoop(Tail(rows), acc)

\* what the "for page in doc" body does with the outcome f of extract_fields:
\* the exception goes on, or the page adds its labels to all_labels
PageOutcomeOf(f) ==
    IF f.exc # "none" THEN [exc |-> f.exc, labels |-> <<>>]
    ELSE IF Strip(f.so) = <<>> THEN [exc |-> "none", labels |-> <<>>]
    ELSE [exc |-> "none",
          labels |-> make_labels_from_job_and_load(
                         Strip(f.so), Strip(f.scac), Strip(f.pro),
                         <<f.qty>>, f.load_numbers)]

\* one pass of the "for page in doc" body
PageOutcome(page) == PageOutcomeOf(extract_fields(page))

\* the "for page in doc" loops of the upload run over the outcomes of the
\* pages' bodies: the first exception ends the run, otherwise all_labels
\* grows page by page
RECURSIVE UploadLoop(_, _)
UploadLoop(outcomes, acc) ==
    IF outcomes = <<>> THEN [exc |-> "none", all_labels |-> acc]
    ELSE IF Head(outcomes).exc # "none"
         THEN [exc |-> Head(outcomes).exc, all_labels |-> <<>>]
         ELSE UploadLoop(Tail(outcomes), acc \o Head(outcomes).labels)

\* the upload run over the pages of all documents
UploadRun(pages) ==
    UploadLoop([i \in 1..Len(pages) |-> PageOutcome(pages[i])], <<>>)

InitBatch ==
    /\ manual_mode \in BOOLEAN
    /\ entries \in IF manual_mode THEN ManualEntries ELSE {<<>>}
    /\ uploaded \in IF manual_mode THEN {<<>>} ELSE UploadsOf(Documents)
    /\ all_labels = <<>> /\ total_labels = 0 /\ batch_pc = "idle"
    /\ pieces = <<>> /\ job_in = <<>> /\ parse_out = <<>>
    /\ text_lines = <<>> /\ text = <<>> /\ fields = <<>>
    /\ rec = <<>> /\ labels = <<>>
    /\ job = <<>> /\ pc = <<>> /\ barcode_path = <<>> /\ tmpdir = <<>>

\* the run in which "Generate Labels" is pressed
GenerateManual ==
    /\ manual_mode
    /\ batch_pc = "idle"
    /\ all_labels' = ManualLoop(entries, <<>>)
    /\ total_labels' = Len(all_labels')
    /\ batch_pc' = IF all_labels' # <<>> THEN "success" ELSE "warning"
    /\ UNCHANGED <<manual_mode, entries, uploaded>>
    /\ UNCHANGED <<parseVars, extractVars, labelVars, barcodeVars>>

\* the run that finds uploaded files
ProcessUpload ==
    /\ ~manual_mode
    /\ uploaded # <<>>
    /\ batch_pc = "idle"
    /\ \E run \in {UploadRun(PagesOf(uploaded))} :
          /\ all_labels' = run.all_labels
          /\ total_labels' = Len(run.all_labels)
          /\ batch_pc' = IF run.exc # "none" THEN run.exc
                         ELSE IF run.all_labels # <<>> THEN "success"
                         ELSE "warning"
    /\ UNCHANGED <<manual_mode, entries, uploaded>>
    /\ UNCHANGED <<parseVars, extractVars, labelVars, barcodeVars>>

NextBatch == GenerateManual \/ ProcessUpload

SpecBatch == InitBatch /\ [][NextBatch]_vars

(***************************************************************************)
(* Claims about the batch (SpecBatch)                                      *)
(***************************************************************************)
BatchEnded == batch_pc # "idle"

\* the shipment record of a page, as a reader of the page sees it
PageRecord(page) ==
    CASE page = PageShipment ->
             [so |-> TextSO1, scac |-> <<>>, pro |-> <<>>, qty |-> 3,
              load_numbers |-> <<TokenC16, TokenA26>>]
      [] page = PageNoOrder ->
             [so |-> <<>>, scac |-> TextFEDX, pro |-> <<>>, qty |-> 2,
              load_numbers |-> <<>>]
      [] page = PageLegacy ->
             [so |-> TextSO2, scac |-> TextFEDX, pro |-> <<>>, qty |-> 2,
              load_numbers |-> <<>>]
      [] page = PageBlankCarrier ->
             [so |-> <<>>, scac |-> <<>>, pro |-> TextPro, qty |-> 1,
              load_numbers |-> <<>>]

\* the shipment record of a manual row
RowRecord(row) ==
    [so |-> Strip(row.so), scac |-> Strip(row.scac), pro |-> Strip(row.pro),
     qty |-> row.qty,
     load_numbers |-> IF row.loads = TextLoads THEN <<TokenC16, TokenA26>>
                      ELSE <<>>]

\* the labels of one record, written out field by field
RecordLabels(r) ==
    [n \in 1..r.qty |->
        [so |-> r.so, scac |-> r.scac, pro |-> r.pro,
         load_text |-> IF n <= Len(r.load_numbers) THEN r.load_numbers[n]
                       ELSE <<>>,
         idx |-> n, total |-> r.qty]]

\* the labels of the records that have a sales order, in source order
RECURSIVE ExpectedLabels(_)
ExpectedLabels(records) ==
    IF records = <<>> THEN <<>>
    ELSE (IF Head(records).so # <<>> THEN RecordLabels(Head(records)) ELSE <<>>)
         \o ExpectedLabels(Tail(records))

BatchRecords ==
    IF manual_mode THEN [i \in 1..Len(entries) |-> RowRecord(entries[i])]
    ELSE LET pages == PagesOf(uploaded)
         IN [i \in 1..Len(pages) |-> PageRecord(pages[i])]

\* C3: for every batch, all_labels is the concatenation in source order of
\* the labels of the records whose sales order is not blank; a record with a
\* blank sales order adds no label and does not abort the batch; the
\* reported count is the length of all_labels.
C3_BatchIsConcatenation ==
    BatchEnded =>
        /\ batch_pc \in {"success", "warning"}
        /\ all_labels = ExpectedLabels(BatchRecords)
        /\ total_labels = Len(all_labels)

\* what holds of the batch when no page makes extract_fields raise: the rest
\* of C3
BatchConcatenationUnlessRaised ==
    (BatchEnded /\ batch_pc \in {"success", "warning"}) =>
        /\ all_labels = ExpectedLabels(BatchRecords)
        /\ total_labels = Len(all_labels)

\* no batch without a page like PageBlankCarrier is aborted
BatchAbortsOnlyOnBlankCarrier ==
    (BatchEnded /\ batch_pc \notin {"success", "warning"}) =>
        /\ ~manual_mode
        /\ \E i \in 1..Len(PagesOf(uploaded)) :
              PagesOf(uploaded)[i] = PageBlankCarrier

(***************************************************************************)
(* make_single_label_pdf and the barcode image it keeps in the temp        *)
(* directory.  Streamlit runs the script of every session in a thread of   *)
(* one process, so the sessions share tempfile.gettempdir().  A file is    *)
(* named after the PRO value; tmpdir maps it to <<>> (no such file) or to  *)
(* <<s>>, the session whose image it holds.                                *)
(***************************************************************************)
MaxSessions == 2

Sessions == 1..MaxSessions

\* a sales order with a character outside Latin-1 (GREEK CAPITAL OMEGA,
\* which \w matches)
TextSOOmega == <<"S", "O", "-", "7", "U+03A9">>

TextPro2 == <<"1", "2">>

BarcodeValues == {TextPro, TextPro2}

\* str.encode("latin1") succeeds
Latin1Encodable(s) == \A i \in 1..Len(s) : s[i] # "U+03A9"

LabelJobs == [so : {TextSO1, TextSOOmega}, pro : BarcodeValues \cup {<<>>}]

InitBarcode ==
    /\ job \in [Sessions -> LabelJobs]
    /\ pc = [s \in Sessions |-> "start"]
    /\ barcode_path = [s \in Sessions |-> <<>>]
    /\ tmpdir = [f \in BarcodeValues |-> <<>>]
    /\ pieces = <<>> /\ job_in = <<>> /\ parse_out = <<>>
    /\ text_lines = <<>> /\ text = <<>> /\ fields = <<>>
    /\ rec = <<>> /\ labels = <<>>
    /\ manual_mode = FALSE /\ entries = <<>> /\ uploaded = <<>>
    /\ all_labels = <<>> /\ total_labels = 0 /\ batch_pc = "idle"

\* use_barcode / generate_barcode_image_path: the image is saved under the
\* PRO value, over whatever file has that name
GenerateBarcode(s) ==
    /\ pc[s] = "start"
    /\ IF job[s].pro # <<>>
       THEN /\ tmpdir' = [tmpdir EXCEPT ![job[s].pro] = <<s>>]
            /\ barcode_path' = [barcode_path EXCEPT ![s] = <<job[s].pro>>]
       ELSE UNCHANGED <<tmpdir, barcode_path>>
    /\ pc' = [pc EXCEPT ![s] = "page"]
    /\ UNCHANGED job
    /\ UNCHANGED <<parseVars, extractVars, labelVars, batchVars>>

\* the page is laid out; pdf.image opens the barcode file and raises when it
\* is gone
DrawPage(s) ==
    /\ pc[s] = "page"
    /\ pc' = [pc EXCEPT ![s] =
                 IF barcode_path[s] # <<>> /\ tmpdir[barcode_path[s][1]] = <<>>
                 THEN "raised" ELSE "drawn"]
    /\ UNCHANGED <<job, barcode_path, tmpdir>>
    /\ UNCHANGED <<parseVars, extractVars, labelVars, batchVars>>

\* pdf.output(dest="S").encode("latin1"): raises UnicodeEncodeError for text
\* outside Latin-1
OutputPdf(s) ==
    /\ pc[s] = "drawn"
    /\ pc' = [pc EXCEPT ![s] =
                 IF Latin1Encodable(job[s].so) THEN "written" ELSE "raised"]
    /\ UNCHANGED <<job, barcode_path, tmpdir>>
    /\ UNCHANGED <<parseVars, extractVars, labelVars, batchVars>>

\* os.remove(barcode_path) when the path exists, then return
RemoveBarcode(s) ==
    /\ pc[s] = "written"
    /\ IF barcode_path[s] # <<>> /\ tmpdir[barcode_path[s][1]] # <<>>
       THEN tmpdir' = [tmpdir EXCEPT ![barcode_path[s][1]] = <<>>]
       ELSE UNCHANGED tmpdir
    /\ pc' = [pc EXCEPT ![s] = "returned"]
    /\ UNCHANGED <<job, barcode_path>>
    /\ UNCHANGED <<parseVars, extractVars, labelVars, batchVars>>

NextBarcode ==
    \E s \in Sessions :
        \/ GenerateBarcode(s)
        \/ DrawPage(s)
        \/ OutputPdf(s)
        \/ RemoveBarcode(s)

SpecBarcode == InitBarcode /\ [][NextBarcode]_vars

(***************************************************************************)
(* Claims about the barcode temp file (SpecBarcode)                        *)
(***************************************************************************)
Ended(s) == pc[s] \in {"returned", "raised"}

InUse(s) == pc[s] \in {"page", "drawn", "written"}

\* once make_single_label_pdf has ended, by return or by exception, the file
\* it created is gone
ReleasedWhenEnded ==
    \A s \in Sessions :
        (Ended(s) /\ barcode_path[s] # <<>>) => tmpdir[barcode_path[s][1]] # <<s>>

\* while a label is being rendered its barcode file is the one it created
NotTouchedByOthers ==
    \A s \in Sessions :
        (InUse(s) /\ barcode_path[s] # <<>>) => tmpdir[barcode_path[s][1]] = <<s>>

\* C10: the barcode file of a label is released whenever make_single_label_pdf
\* ends, by return or by exception, and no other batch that renders a label
\* with the same tracking id removes or replaces it meanwhile.
C10_BarcodeScopedPerLabel == ReleasedWhenEnded /\ NotTouchedByOthers

====
